---- MODULE Spec2Model ----
(***************************************************************************)
(* Model of wordcloud_cli.py: parse_args (argument parsing, validation,    *)
(* wordlist parsing, option resolution) followed by main.                  *)
(*                                                                         *)
(* Strings whose characters matter (wordlist lines and their fields) are   *)
(* sequences of one-character strings.  Python's None for an optional      *)
(* string is <<>>, a supplied string s is <<s>>.                           *)
(*                                                                         *)
(* Not modelled: the numeric and font flags and --no_collocations (no      *)
(* branch depends on them), a flag given twice, an explicit "-" as a file  *)
(* name, and failures inside the wordcloud / PIL collaborators other than  *)
(* an image that cannot be decoded.                                        *)
(***************************************************************************)
EXTENDS Integers, Sequences, FiniteSets, TLC

VARIABLES
    supplied,       \* flags present on the command line
    seen,           \* flags argparse has consumed so far
    pc,             \* position in parse_args / main
    args,           \* the argparse namespace
    handles,        \* state of the stream bound to each file argument
    outfile,        \* on-disk state of the file named by --imagefile
    wordlist,       \* the local list of (word, count) pairs
    fileRead,       \* lines the wordlist loop has read so far
    frequencies,    \* dict(wordlist) once args.wordlist is rebound
    textRead,       \* args.text.read() has been called
    err,            \* message of the exception that ended the run
    bgArg,          \* value --background was given (or its default)
    generateCalls,  \* generation entry points main has called
    handed          \* the mapping handed to generate_from_frequencies

vars == <<supplied, seen, pc, args, handles, outfile, wordlist, fileRead,
          frequencies, textRead, err, bgArg, generateCalls, handed>>

\* ---------------------------------------------------------------- bounds
MaxLineLen == 5
MaxFileLen == 7

\* ------------------------------------------------------------- constants
TextFlags == {"--text", "--stopwords", "--wordlist"}
ImageFlags == {"--mask", "--colormask"}
Flags == TextFlags \cup ImageFlags \cup {"--imagefile", "--color", "--background"}
Streams == TextFlags \cup ImageFlags \cup {"--imagefile"}

Dest(f) ==
    CASE f = "--text" -> "text"
      [] f = "--stopwords" -> "stopwords"
      [] f = "--wordlist" -> "wordlist"
      [] f = "--mask" -> "mask"
      [] f = "--colormask" -> "colormask"
      [] f = "--imagefile" -> "imagefile"

DefaultBackground == "black"
TransparentSentinel == "#ffffff00"
MutexMessage == "specify either a color mask or a color function"
CantOpen == "can't open"
IndexErrorMsg == "IndexError: list index out of range"
IntErrorMsg == "ValueError: invalid literal for int()"
ImageErrorMsg == "cannot identify image file"

ColorValues == {"", "red"}
BackgroundValues == {"None", "none", "NONE", "red", TransparentSentinel}

Whitespace == {" "}
Digits == {"1", "2"}
Chars == {" ", ";", "a", "1", "2", "-", "+"}
ShortChars == {" ", ";", "a", "1", "2"}

SeqsUpTo(S, n) == UNION {[1..k -> S] : k \in 0..n}
LongLines == SeqsUpTo(Chars, MaxLineLen)

\* Characters of the file consumed by the lines read so far, each with
\* its newline, and the lines that still fit in a file of MaxFileLen.
RECURSIVE Consumed(_)
Consumed(ls) == IF ls = <<>> THEN 0 ELSE Len(Head(ls)) + 1 + Consumed(Tail(ls))
ShortLines(ls) ==
    IF Consumed(ls) > MaxFileLen THEN {}
    ELSE SeqsUpTo(ShortChars, MaxFileLen - Consumed(ls))
SampleLines == {<<"a", ";", "1">>, <<>>, <<"a">>}

EmptyDict == [k \in {} |-> 0]

\* ------------------------------------------------- Python string methods
RECURSIVE LStrip(_)
LStrip(s) == IF s # <<>> /\ Head(s) \in Whitespace THEN LStrip(Tail(s)) ELSE s

RECURSIVE RStrip(_)
RStrip(s) ==
    IF s # <<>> /\ s[Len(s)] \in Whitespace
    THEN RStrip(SubSeq(s, 1, Len(s) - 1)) ELSE s

Strip(s) == RStrip(LStrip(s))

RECURSIVE SplitAcc(_, _, _, _)
SplitAcc(s, sep, cur, acc) ==
    IF s = <<>> THEN Append(acc, cur)
    ELSE IF Head(s) = sep
         THEN SplitAcc(Tail(s), sep, <<>>, Append(acc, cur))
         ELSE SplitAcc(Tail(s), sep, Append(cur, Head(s)), acc)

Split(s, sep) == SplitAcc(s, sep, <<>>, <<>>)

DigitVal(c) == CASE c = "1" -> 1 [] c = "2" -> 2

IntBody(s) ==
    LET t == Strip(s)
    IN IF t # <<>> /\ Head(t) \in {"-", "+"} THEN Tail(t) ELSE t

IntOk(s) ==
    /\ IntBody(s) # <<>>
    /\ \A i \in 1..Len(IntBody(s)) : IntBody(s)[i] \in Digits

RECURSIVE Decimal(_)
Decimal(d) ==
    IF d = <<>> THEN 0
    ELSE 10 * Decimal(SubSeq(d, 1, Len(d) - 1)) + DigitVal(d[Len(d)])

PyInt(s) ==
    LET t == Strip(s)
    IN IF t # <<>> /\ Head(t) = "-" THEN 0 - Decimal(IntBody(s))
       ELSE Decimal(IntBody(s))

\* dict() in which an earlier pair for a key survives a later one.
RECURSIVE DictFirstWins(_)
DictFirstWins(pairs) ==
    IF pairs = <<>> THEN EmptyDict
    ELSE LET d == DictFirstWins(SubSeq(pairs, 1, Len(pairs) - 1))
             p == pairs[Len(pairs)]
         IN [k \in DOMAIN d \cup {p[1]} |-> IF k \in DOMAIN d THEN d[k] ELSE p[2]]

RECURSIVE DictOf(_)
DictOf(pairs) ==
    IF pairs = <<>> THEN EmptyDict
    ELSE LET d == DictOf(SubSeq(pairs, 1, Len(pairs) - 1))
             p == pairs[Len(pairs)]
         IN [k \in DOMAIN d \cup {p[1]} |-> IF k = p[1] THEN p[2] ELSE d[k]]

\* Python truthiness of an optional string: None and '' are false.
Truthy(o) == o # <<>> /\ o[1] # ""

\* ------------------------------------------------------------ the state
InitArgs ==
    [text |-> "unset", stopwords |-> "None", wordlist |-> "None",
     mask |-> "None", colormask |-> "None", imagefile |-> "unset",
     color |-> <<>>, background_color |-> DefaultBackground,
     color_func |-> [kind |-> "unset", color |-> ""]]

InitCommon ==
    /\ seen = {}
    /\ pc = "argparse"
    /\ args = InitArgs
    /\ handles = [s \in Streams |-> "unopened"]
    /\ outfile = "untouched"
    /\ wordlist = <<>>
    /\ fileRead = <<>>
    /\ frequencies = EmptyDict
    /\ textRead = FALSE
    /\ err = ""
    /\ bgArg = DefaultBackground
    /\ generateCalls = {}
    /\ handed = EmptyDict

Init == supplied \in SUBSET Flags /\ InitCommon

InitWordlist == supplied = {"--wordlist"} /\ InitCommon

Raise(msg) == pc' = "raised" /\ err' = msg

\* ----------------------------------------------- parser.parse_args(...)
\* FileType.__call__ / argparse.FileType('rb') on a file name: the stream
\* is opened while the flag is being parsed, or the run ends.
ParseInputFile(f, ok) ==
    /\ pc = "argparse"
    /\ f \in (TextFlags \cup ImageFlags) /\ f \in supplied \ seen
    /\ seen' = seen \cup {f}
    /\ IF ok
       THEN /\ args' = [args EXCEPT ![Dest(f)] = "file"]
            /\ handles' = [handles EXCEPT ![f] = "open"]
            /\ UNCHANGED <<pc, err>>
       ELSE /\ Raise(CantOpen)
            /\ UNCHANGED <<args, handles>>
    /\ UNCHANGED <<supplied, outfile, wordlist, fileRead, frequencies,
                   textRead, bgArg, generateCalls, handed>>

\* argparse.FileType('wb'): open(name, 'wb') creates or truncates the file.
ParseImagefile(ok) ==
    /\ pc = "argparse"
    /\ "--imagefile" \in supplied \ seen
    /\ seen' = seen \cup {"--imagefile"}
    /\ IF ok
       THEN /\ args' = [args EXCEPT !.imagefile = "file"]
            /\ handles' = [handles EXCEPT !["--imagefile"] = "open"]
            /\ outfile' = "truncated"
            /\ UNCHANGED <<pc, err>>
       ELSE /\ Raise(CantOpen)
            /\ UNCHANGED <<args, handles, outfile>>
    /\ UNCHANGED <<supplied, wordlist, fileRead, frequencies, textRead,
                   bgArg, generateCalls, handed>>

ParseColor(c) ==
    /\ pc = "argparse"
    /\ "--color" \in supplied \ seen
    /\ seen' = seen \cup {"--color"}
    /\ args' = [args EXCEPT !.color = <<c>>]
    /\ UNCHANGED <<supplied, pc, handles, outfile, wordlist, fileRead,
                   frequencies, textRead, err, bgArg, generateCalls, handed>>

ParseBackground(b) ==
    /\ pc = "argparse"
    /\ "--background" \in supplied \ seen
    /\ seen' = seen \cup {"--background"}
    /\ args' = [args EXCEPT !.background_color = b]
    /\ bgArg' = b
    /\ UNCHANGED <<supplied, pc, handles, outfile, wordlist, fileRead,
                   frequencies, textRead, err, generateCalls, handed>>

\* End of the command line: the string defaults '-' of --text and
\* --imagefile are converted to sys.stdin and sys.stdout.
ApplyDefaults ==
    /\ pc = "argparse"
    /\ seen = supplied
    /\ args' = [args EXCEPT
                  !.text = IF "--text" \in seen THEN @ ELSE "stdin",
                  !.imagefile = IF "--imagefile" \in seen THEN @ ELSE "stdout"]
    /\ handles' = [s \in Streams |->
                     IF s \in {"--text", "--imagefile"} /\ s \notin seen
                     THEN "open" ELSE handles[s]]
    /\ pc' = "check"
    /\ UNCHANGED <<supplied, seen, outfile, wordlist, fileRead, frequencies,
                   textRead, err, bgArg, generateCalls, handed>>

\* ------------------------------------------------ parse_args, after it
\* `if args.colormask and args.color`: a file object is always true.
BothColorings(a) == a.colormask # "None" /\ Truthy(a.color)

\* `if not args.wordlist is None`
WordlistGiven(a) == a.wordlist # "None"

CheckColorExclusive ==
    /\ pc = "check"
    /\ IF BothColorings(args)
       THEN Raise(MutexMessage)
       ELSE /\ pc' = IF WordlistGiven(args) THEN "wordlist" ELSE "text"
            /\ err' = err
    /\ UNCHANGED <<supplied, seen, args, handles, outfile, wordlist, fileRead,
                   frequencies, textRead, bgArg, generateCalls, handed>>

\* The loop body with the two failures swallowed (skip and continue).
WordlistLineSkip(line) ==
    /\ pc = "wordlist"
    /\ fileRead' = Append(fileRead, line)
    /\ LET stripped == Strip(line)
           items == Split(stripped, ";")
       IN IF Len(stripped) = 0 \/ Len(items) < 2 \/ ~IntOk(items[2])
          THEN UNCHANGED wordlist
          ELSE wordlist' = Append(wordlist, <<items[1], PyInt(items[2])>>)
    /\ UNCHANGED <<supplied, seen, pc, args, handles, outfile, frequencies,
                   textRead, err, bgArg, generateCalls, handed>>

\* One iteration of `for line in wordlist_file`; an exception leaves the
\* with block, which closes the stream.
WordlistLine(line) ==
    /\ pc = "wordlist"
    /\ fileRead' = Append(fileRead, line)
    /\ LET stripped == Strip(line)
           items == Split(stripped, ";")
       IN IF Len(stripped) = 0
          THEN UNCHANGED <<pc, err, wordlist, handles>>
          ELSE IF Len(items) < 2
          THEN /\ Raise(IndexErrorMsg)
               /\ handles' = [handles EXCEPT !["--wordlist"] = "closed"]
               /\ UNCHANGED wordlist
          ELSE IF ~IntOk(items[2])
          THEN /\ Raise(IntErrorMsg)
               /\ handles' = [handles EXCEPT !["--wordlist"] = "closed"]
               /\ UNCHANGED wordlist
          ELSE /\ wordlist' = Append(wordlist, <<items[1], PyInt(items[2])>>)
               /\ UNCHANGED <<pc, err, handles>>
    /\ UNCHANGED <<supplied, seen, args, outfile, frequencies, textRead,
                   bgArg, generateCalls, handed>>

\* End of the file: the with block closes it, args.wordlist = dict(wordlist).
WordlistEnd ==
    /\ pc = "wordlist"
    /\ handles' = [handles EXCEPT !["--wordlist"] = "closed"]
    /\ frequencies' = DictOf(wordlist)
    /\ args' = [args EXCEPT !.wordlist = "dict"]
    /\ pc' = "resolve"
    /\ UNCHANGED <<supplied, seen, outfile, wordlist, fileRead, textRead,
                   err, bgArg, generateCalls, handed>>

\* `with args.text: args.text = args.text.read()`
ReadText ==
    /\ pc = "text"
    /\ textRead' = TRUE
    /\ args' = [args EXCEPT !.text = "str"]
    /\ handles' = [handles EXCEPT !["--text"] = "closed"]
    /\ pc' = "resolve"
    /\ UNCHANGED <<supplied, seen, outfile, wordlist, fileRead, frequencies,
                   err, bgArg, generateCalls, handed>>

\* The comparison with 'none' left out.
NormalizeBackgroundCapitalOnly(b) ==
    IF b = "None" THEN TransparentSentinel ELSE b

NormalizeBackground(b) ==
    IF b = "None" \/ b = "none" THEN TransparentSentinel ELSE b

\* Background sentinel, then the stopwords file is read and closed.
ResolveBackgroundStopwords ==
    /\ pc = "resolve"
    /\ args' = [args EXCEPT
                  !.background_color = NormalizeBackground(@),
                  !.stopwords = IF @ # "None" THEN "set" ELSE @]
    /\ handles' = [handles EXCEPT !["--stopwords"] =
                     IF args.stopwords # "None" THEN "closed" ELSE @]
    /\ pc' = "mask"
    /\ UNCHANGED <<supplied, seen, outfile, wordlist, fileRead, frequencies,
                   textRead, err, bgArg, generateCalls, handed>>

\* `args.mask = np.array(Image.open(args.mask))`; nothing closes the stream.
DecodeMask(ok) ==
    /\ pc = "mask"
    /\ IF args.mask = "None"
       THEN pc' = "color" /\ UNCHANGED <<args, err>>
       ELSE IF ok
       THEN pc' = "color" /\ args' = [args EXCEPT !.mask = "array"]
            /\ UNCHANGED err
       ELSE Raise(ImageErrorMsg) /\ UNCHANGED args
    /\ UNCHANGED <<supplied, seen, handles, outfile, wordlist, fileRead,
                   frequencies, textRead, bgArg, generateCalls, handed>>

RandomFunc == [kind |-> "Random", color |-> ""]
ImageFunc == [kind |-> "ImageSampled", color |-> ""]
FixedFunc(c) == [kind |-> "Fixed", color |-> c]

\* color_func after lines 166-172, when the color mask decodes.
ColorFunc(a) ==
    IF Truthy(a.color) THEN FixedFunc(a.color[1])
    ELSE IF a.colormask # "None" THEN ImageFunc
    ELSE RandomFunc

ResolveColor(ok) ==
    /\ pc = "color"
    /\ IF args.colormask # "None" /\ ~ok
       THEN Raise(ImageErrorMsg) /\ UNCHANGED args
       ELSE /\ args' = [args EXCEPT !.color_func = ColorFunc(args)]
            /\ pc' = "returned"
            /\ UNCHANGED err
    /\ UNCHANGED <<supplied, seen, handles, outfile, wordlist, fileRead,
                   frequencies, textRead, bgArg, generateCalls, handed>>

\* ----------------------------------------------------------------- main
\* `if args.wordlist:` in place of `if not args.wordlist is None:`.
UseFrequenciesTruthy(a, freq) == a.wordlist # "None" /\ DOMAIN freq # {}

UseFrequencies(a, freq) == a.wordlist # "None"

Main ==
    /\ pc = "returned"
    /\ IF UseFrequencies(args, frequencies)
       THEN /\ generateCalls' = generateCalls \cup {"generate_from_frequencies"}
            /\ handed' = frequencies
       ELSE /\ generateCalls' = generateCalls \cup {"generate"}
            /\ UNCHANGED handed
    /\ outfile' = IF args.imagefile = "file" THEN "written" ELSE outfile
    /\ handles' = [handles EXCEPT !["--imagefile"] = "closed"]
    /\ pc' = "done"
    /\ UNCHANGED <<supplied, seen, args, wordlist, fileRead, frequencies,
                   textRead, err, bgArg>>

\* ------------------------------------------------------- specifications
\* The whole command line, with a wordlist file of at most one line.
Next ==
    \/ \E f \in TextFlags \cup ImageFlags, ok \in BOOLEAN : ParseInputFile(f, ok)
    \/ \E ok \in BOOLEAN : ParseImagefile(ok)
    \/ \E c \in ColorValues : ParseColor(c)
    \/ \E b \in BackgroundValues : ParseBackground(b)
    \/ ApplyDefaults
    \/ CheckColorExclusive
    \/ pc = "wordlist" /\ fileRead = <<>>
         /\ \E line \in SampleLines : WordlistLine(line)
    \/ WordlistEnd
    \/ ReadText
    \/ ResolveBackgroundStopwords
    \/ \E ok \in BOOLEAN : DecodeMask(ok)
    \/ \E ok \in BOOLEAN : ResolveColor(ok)
    \/ Main

Spec == Init /\ [][Next]_vars

\* Only --wordlist, naming a file of at most one line over Chars.
NextLine ==
    \/ \E ok \in BOOLEAN : ParseInputFile("--wordlist", ok)
    \/ ApplyDefaults
    \/ CheckColorExclusive
    \/ pc = "wordlist" /\ fileRead = <<>>
         /\ \E line \in LongLines : WordlistLine(line)
    \/ WordlistEnd
    \/ ResolveBackgroundStopwords
    \/ \E ok \in BOOLEAN : DecodeMask(ok)
    \/ \E ok \in BOOLEAN : ResolveColor(ok)
    \/ Main

SpecLine == InitWordlist /\ [][NextLine]_vars

\* Only --wordlist, naming a file of at most MaxFileLen characters over
\* ShortChars and the newline.
NextFile ==
    \/ \E ok \in BOOLEAN : ParseInputFile("--wordlist", ok)
    \/ ApplyDefaults
    \/ CheckColorExclusive
    \/ pc = "wordlist"
         /\ \E line \in ShortLines(fileRead) : WordlistLine(line)
    \/ WordlistEnd
    \/ ResolveBackgroundStopwords
    \/ \E ok \in BOOLEAN : DecodeMask(ok)
    \/ \E ok \in BOOLEAN : ResolveColor(ok)
    \/ Main

SpecFile == InitWordlist /\ [][NextFile]_vars

\* ------------------------------------------- vocabulary of the properties
\* Stated on character positions, independently of Strip, Split and int.
Min(S) == CHOOSE x \in S : \A y \in S : x <= y
Max(S) == CHOOSE x \in S : \A y \in S : x >= y

Inked(l) == {i \in 1..Len(l) : l[i] \notin Whitespace}
IsBlank(l) == Inked(l) = {}
Trimmed(l) ==
    LET ink == Inked(l)
    IN IF ink = {} THEN <<>> ELSE SubSeq(l, Min(ink), Max(ink))

Seps(t) == {i \in 1..Len(t) : t[i] = ";"}
FieldCount(t) == Cardinality(Seps(t)) + 1
FirstField(t) == SubSeq(t, 1, Min(Seps(t) \cup {Len(t) + 1}) - 1)
SecondField(t) ==
    LET seps == Seps(t)
        first == Min(seps)
        next == Min({i \in seps : i > first} \cup {Len(t) + 1})
    IN SubSeq(t, first + 1, next - 1)

Unsigned(f) ==
    LET u == Trimmed(f)
    IN IF u # <<>> /\ u[1] \in {"-", "+"} THEN SubSeq(u, 2, Len(u)) ELSE u
IsInteger(f) ==
    LET u == Unsigned(f)
    IN u # <<>> /\ \A i \in 1..Len(u) : u[i] \in Digits
RECURSIVE Pow10(_)
Pow10(n) == IF n = 0 THEN 1 ELSE 10 * Pow10(n - 1)
RECURSIVE Magnitude(_, _)
Magnitude(u, i) ==
    IF i > Len(u) THEN 0
    ELSE (IF u[i] = "1" THEN 1 ELSE 2) * Pow10(Len(u) - i) + Magnitude(u, i + 1)
IntegerValue(f) ==
    IF Trimmed(f)[1] = "-" THEN 0 - Magnitude(Unsigned(f), 1)
    ELSE Magnitude(Unsigned(f), 1)

\* A line of exactly two fields, the second an integer / of at least two.
TwoFields(l) ==
    LET t == Trimmed(l)
    IN FieldCount(t) = 2 /\ IsInteger(SecondField(t))
AtLeastTwoFields(l) ==
    LET t == Trimmed(l)
    IN FieldCount(t) >= 2 /\ IsInteger(SecondField(t))

ReadLines == {fileRead[i] : i \in 1..Len(fileRead)}
Entries == {i \in 1..Len(fileRead) : ~IsBlank(fileRead[i])}
WordAt(i) == FirstField(Trimmed(fileRead[i]))
CountAt(i) == IntegerValue(SecondField(Trimmed(fileRead[i])))
LastEntry(w) == Max({i \in Entries : WordAt(i) = w})

Failed == pc = "raised"
Returned == pc \in {"returned", "done"}
ParseFailed == Failed /\ err \in {IndexErrorMsg, IntErrorMsg}
Parsed == args.wordlist = "dict"
ColorGiven == "--color" \in supplied
ColormaskGiven == "--colormask" \in supplied

\* --------------------------------------------------------------- claims
\* C1: whenever configuration resolution has failed, the file named by
\* --imagefile has been neither created nor truncated.
C1_OutputUntouchedOnFailure == Failed => outfile = "untouched"

\* C2: with both --color and --colormask supplied, parse_args fails with
\* the mutual-exclusion message and returns nothing, and at that failure
\* neither the color-mask file nor the mask file has been opened.
C2_ExclusiveBeforeOpen ==
    /\ (ColorGiven /\ ColormaskGiven /\ pc \notin {"argparse", "check"}
          /\ err # CantOpen)
       => (Failed /\ err = MutexMessage)
    /\ err = MutexMessage
       => (handles["--colormask"] = "unopened" /\ handles["--mask"] = "unopened")

\* C3: a finished run has called exactly one generation entry point:
\* generate_from_frequencies with the parsed mapping, the text never read,
\* when --wordlist was supplied; generate with the fully read text
\* otherwise.  No run calls both, and none finishes having called neither.
C3_OneInputMode ==
    /\ Cardinality(generateCalls) <= 1
    /\ pc = "done" =>
         IF "--wordlist" \in supplied
         THEN /\ generateCalls = {"generate_from_frequencies"}
              /\ handed = frequencies /\ Parsed
              /\ ~textRead /\ args.text # "str"
         ELSE /\ generateCalls = {"generate"}
              /\ textRead /\ args.text = "str"

C3_Witness ==
    /\ pc = "done"
    /\ {"--wordlist", "--text"} \subseteq supplied
    /\ handles["--text"] = "open"
    /\ generateCalls = {"generate_from_frequencies"}

\* C4 (as claimed): parsing goes on only while every line read is blank or
\* has exactly two fields with an integer second field; it fails at the
\* first other line and then no mapping exists.
C4_ExactlyTwoFields ==
    /\ (pc = "wordlist" \/ Parsed) => \A l \in ReadLines : IsBlank(l) \/ TwoFields(l)
    /\ ParseFailed =>
         /\ ~(IsBlank(fileRead[Len(fileRead)]) \/ TwoFields(fileRead[Len(fileRead)]))
         /\ ~Parsed /\ frequencies = EmptyDict

\* C4 (amended): parsing goes on only while every line read is blank or
\* has at least two fields with an integer second field (further fields
\* are ignored); it fails at the first other line, and then args.wordlist
\* is never rebound to a mapping.
C4_AtLeastTwoFields ==
    /\ (pc = "wordlist" \/ Parsed)
       => \A l \in ReadLines : IsBlank(l) \/ AtLeastTwoFields(l)
    /\ ParseFailed =>
         /\ ~(IsBlank(fileRead[Len(fileRead)])
                \/ AtLeastTwoFields(fileRead[Len(fileRead)]))
         /\ \A i \in 1..(Len(fileRead) - 1) :
               IsBlank(fileRead[i]) \/ AtLeastTwoFields(fileRead[i])
         /\ ~Parsed /\ frequencies = EmptyDict
         /\ handles["--wordlist"] = "closed"

C4_Witness ==
    /\ ParseFailed
    /\ Len(fileRead) = 2
    /\ FieldCount(Trimmed(fileRead[1])) > 2
    /\ wordlist # <<>>

\* C5: for a file of blank lines and word;count lines, the mapping's keys
\* are exactly the words of the nonblank lines and each key maps to the
\* count on the last line that carries it.
C5_LastWins ==
    (Parsed /\ \A l \in ReadLines : IsBlank(l) \/ TwoFields(l)) =>
        /\ DOMAIN frequencies = {WordAt(i) : i \in Entries}
        /\ \A w \in DOMAIN frequencies : frequencies[w] = CountAt(LastEntry(w))

C5_Witness ==
    /\ Parsed
    /\ Len(fileRead) = 2
    /\ TwoFields(fileRead[1]) /\ TwoFields(fileRead[2])
    /\ WordAt(1) = WordAt(2)
    /\ CountAt(1) # CountAt(2)

\* C6: once the run is over (failed or done), no stream opened for a file
\* argument is still open.
C6_AllStreamsClosed ==
    (Failed \/ pc = "done") =>
        \A s \in Streams \cap supplied : handles[s] # "open"

\* C7: a returned configuration exists only when --color and --colormask
\* are not both supplied, and carries Fixed(color) when --color is
\* supplied, ImageSampled when --colormask is, Random when neither is.
C7_ColorTable ==
    /\ Returned => ~(ColorGiven /\ ColormaskGiven)
    /\ Returned =>
         args.color_func =
            IF ColorGiven THEN FixedFunc(args.color[1])
            ELSE IF ColormaskGiven THEN ImageFunc
            ELSE RandomFunc

\* C8 (as claimed): in a returned configuration background_color is never
\* 'None' or 'none', is the sentinel exactly when the argument was 'None'
\* or 'none', and is the argument otherwise.
C8_SentinelExactly ==
    Returned =>
        /\ args.background_color \notin {"None", "none"}
        /\ (args.background_color = TransparentSentinel) <=> (bgArg \in {"None", "none"})
        /\ bgArg \notin {"None", "none"} => args.background_color = bgArg

\* C8 (amended): in a returned configuration background_color is never
\* 'None' or 'none'; it is the sentinel when the argument was 'None' or
\* 'none' and the unchanged argument otherwise, so it is the sentinel
\* exactly when the argument was 'None', 'none' or the sentinel itself.
C8_Normalized ==
    Returned =>
        /\ args.background_color \notin {"None", "none"}
        /\ bgArg \in {"None", "none"} => args.background_color = TransparentSentinel
        /\ bgArg \notin {"None", "none"} => args.background_color = bgArg
        /\ (args.background_color = TransparentSentinel)
             <=> (bgArg \in {"None", "none", TransparentSentinel})

C8_Witness ==
    /\ Returned
    /\ bgArg = "none"
    /\ args.background_color = TransparentSentinel

\* C9: every count in the mapping handed to generate_from_frequencies is
\* greater than or equal to 0.
C9_CountsNonNegative ==
    "generate_from_frequencies" \in generateCalls =>
        \A w \in DOMAIN handed : handed[w] >= 0

\* C10: every key of the parsed mapping is the trimmed word of a line, so
\* no key starts or ends with whitespace.
C10_KeysTrimmed ==
    Parsed =>
        /\ \A w \in DOMAIN frequencies :
              w = <<>> \/ (w[1] \notin Whitespace /\ w[Len(w)] \notin Whitespace)
        /\ DOMAIN frequencies = {Trimmed(WordAt(i)) : i \in Entries}
====
